---------------------------- MODULE Spec2Model ----------------------------
(***************************************************************************)
(* Model of lcp_physics/lcp/solvers/batch_pdipm.py: the batched primal-    *)
(* dual interior point solver (forward), its step-length ratio test        *)
(* (get_step) and the partial KKT factorisation (pre_factor_kkt,           *)
(* factor_kkt, solve_kkt).                                                 *)
(*                                                                         *)
(* Numbers.  A tensor entry is an extended rational <<n, d>> in lowest     *)
(* terms with d >= 0.  d > 0 is the finite value n/d; <<1,0>> is +inf,     *)
(* <<-1,0>> is -inf and <<0,0>> is NaN, with the IEEE-754 rules the code   *)
(* runs under (x/0 = +-inf, 0*inf = NaN, inf-inf = NaN, every comparison   *)
(* with NaN false).  A zero is the +0.0 that a cancelling sum produces.    *)
(*                                                                         *)
(* Shapes.  forward is modelled for nz = 1, nineq = 1, neq = 0 and         *)
(* nBatch in {1, 2}, so that every norm is an absolute value and the   *)
(* arithmetic stays rational.  get_step is modelled for any row length.    *)
(***************************************************************************)
EXTENDS Integers, Sequences, FiniteSets, TLC

VARIABLES
    pc,             \* position of the caller: "start", "factored", "loop", "returned", "raised", "step"
    inp,            \* the arguments of the call (Q, p, G, h, F, options, strategy)
    Q_LU, S_LU, R,  \* what pre_factor_kkt returned; S_LU is mutated by factor_kkt
    factor_kkt_eye, \* module-level cached mask (its shape), None before the first factor_kkt
    shown_btrifact_warning, \* module-level flag
    x, s, z,        \* current iterate of forward, one entry per batch element
    best,           \* forward's best record, None or [resids, x, z, s]
    nNotImproved,   \* forward's stall counter
    i,              \* forward's loop index
    ret,            \* what the last call returned, None while it has not
    exc,            \* the exception that left the last call, "" if none
    warned,         \* INACC_ERR was printed by the current call of forward
    via,            \* the return statement forward left by
    hist,           \* the iterates the current call compared with its best record,
                    \* each with mu, the best record and the stall counter after it
    dirs,           \* the Newton directions the KKT solves produced, by iteration
    call, ret1,     \* number of the current call of forward, result of the first
    gs              \* get_step called on its own: [v, dv, step]

vars == <<pc, inp, Q_LU, S_LU, R, factor_kkt_eye, shown_btrifact_warning,
          x, s, z, best, nNotImproved, i, ret, exc, warned, via, hist,
          dirs, call, ret1, gs>>

None == "None"

-----------------------------------------------------------------------------
(* Extended rationals *)

RECURSIVE GCD(_, _)
GCD(a, b) == IF b = 0 THEN a ELSE GCD(b, a % b)

AbsI(n) == IF n < 0 THEN -n ELSE n
Sgn(n) == IF n > 0 THEN 1 ELSE IF n < 0 THEN -1 ELSE 0

Rat(n, d) ==
    IF d = 0 THEN <<Sgn(n), 0>>
    ELSE LET dd == AbsI(d)
             nn == IF d < 0 THEN -n ELSE n
             g == GCD(AbsI(nn), dd)
         IN <<nn \div g, dd \div g>>

Num(n) == <<n, 1>>
Zero == <<0, 1>>
One == <<1, 1>>
PInf == <<1, 0>>
NInf == <<-1, 0>>
NaN == <<0, 0>>

IsNaN(a) == a = NaN
IsFinite(a) == a[2] > 0

Neg(a) == <<-a[1], a[2]>>
Abs(a) == <<AbsI(a[1]), a[2]>>

Mul(a, b) ==
    IF a[2] = 0 \/ b[2] = 0 THEN <<Sgn(a[1]) * Sgn(b[1]), 0>>
    ELSE IF a[1] = 0 \/ b[1] = 0 THEN Zero
    ELSE LET g1 == GCD(AbsI(a[1]), b[2])
             g2 == GCD(AbsI(b[1]), a[2])
         IN <<(a[1] \div g1) * (b[1] \div g2), (a[2] \div g2) * (b[2] \div g1)>>

Add(a, b) ==
    IF a[2] = 0 /\ b[2] = 0 THEN (IF a = b THEN a ELSE NaN)
    ELSE IF a[2] = 0 THEN a
    ELSE IF b[2] = 0 THEN b
    ELSE LET g == GCD(a[2], b[2])
         IN Rat(a[1] * (b[2] \div g) + b[1] * (a[2] \div g), (a[2] \div g) * b[2])

Sub(a, b) == Add(a, Neg(b))

Recip(a) ==
    IF a[1] > 0 THEN <<a[2], a[1]>>
    ELSE IF a[1] < 0 THEN <<-a[2], -a[1]>>
    ELSE IF a[2] = 0 THEN NaN ELSE PInf

Div(a, b) == Mul(a, Recip(b))

Lt(a, b) ==
    IF IsNaN(a) \/ IsNaN(b) \/ a = b THEN FALSE
    ELSE IF a = NInf \/ b = PInf THEN TRUE
    ELSE IF a = PInf \/ b = NInf THEN FALSE
    ELSE LET g == GCD(a[2], b[2])
         IN a[1] * (b[2] \div g) < b[1] * (a[2] \div g)

Gt(a, b) == Lt(b, a)
Le(a, b) == ~IsNaN(a) /\ ~IsNaN(b) /\ ~Lt(b, a)


-----------------------------------------------------------------------------
(* Tensor reductions of the backend *)

\* Python's builtin max(a, b): b if b > a else a
PyMax(a, b) == IF Gt(b, a) THEN b ELSE a

\* torch.min(t, src) of two tensors, elementwise: t < src ? t : src
CMin(t, src) == IF Lt(t, src) THEN t ELSE src

\* tensor.max() over a set of entries: NaN if any entry is NaN
MaxAll(S) ==
    IF NaN \in S THEN NaN
    ELSE CHOOSE m \in S : \A e \in S : ~Lt(m, e)

\* tensor.min() over a set of entries: NaN if any entry is NaN
MinAll(S) ==
    IF NaN \in S THEN NaN
    ELSE CHOOSE m \in S : \A e \in S : ~Lt(e, m)

Range(f) == {f[k] : k \in DOMAIN f}

-----------------------------------------------------------------------------
(* get_step(v, dv): v and dv are nBatch rows of equal length *)

\* a = -v / dv
StepRatios(v, dv) ==
    [b \in DOMAIN v |-> [k \in DOMAIN v[b] |-> Div(Neg(v[b][k]), dv[b][k])]]

\* max(1.0, a.max()): the maximum runs over the whole tensor a
StepFill(a) == PyMax(One, MaxAll(UNION {Range(a[b]) : b \in DOMAIN a}))

get_step(v, dv) ==
    LET a == StepRatios(v, dv)
        \* a[dv > 0] = max(1.0, a.max())
        a2 == [b \in DOMAIN v |-> [k \in DOMAIN v[b] |->
                 IF Gt(dv[b][k], Zero) THEN StepFill(a) ELSE a[b][k]]]
    \* step = a.min(1)[0]
    IN [b \in DOMAIN v |-> MinAll(Range(a2[b]))]


-----------------------------------------------------------------------------
(* Inputs of a call *)

MaxIterBound == 2       \* maxIter ranges over 0..MaxIterBound
MaxLimBound == 1        \* notImprovedLim ranges over 0..MaxLimBound
DenCap == 4000          \* iterates with a larger denominator are not iterated further

nineq == 1
nz == 1
neq == 0

\* class KKTSolvers.  SP_LU_FULL, SP_IR_UNOPT, IR_INVERSE and SP_IR_INVERSE
\* follow the same branches of forward as LU_FULL and IR_UNOPT.
KKTSolvers == {"LU_FULL", "SP_LU_FULL", "LU_PARTIAL", "IR_UNOPT",
               "SP_IR_UNOPT", "IR_INVERSE", "SP_IR_INVERSE"}
Strategies == {"LU_PARTIAL", "LU_FULL"}

\* the problems of batches of one element: Q, p, G, h (1x1 matrices and
\* vectors of length 1) and F (<<>> when the caller passes None)
Problems ==
    { [data |-> [Q |-> 1, p |-> 1, G |-> -1, h |-> 0], F |-> <<0>>],
      [data |-> [Q |-> 1, p |-> 1, G |-> -1, h |-> 0], F |-> <<>>],
      [data |-> [Q |-> 1, p |-> 1, G |-> -1, h |-> 0], F |-> <<-2>>],
      [data |-> [Q |-> 2, p |-> 0, G |-> 1, h |-> -1], F |-> <<-1>>],
      [data |-> [Q |-> 2, p |-> 1, G |-> 1, h |-> -2], F |-> <<-1>>],
      [data |-> [Q |-> 2, p |-> 1, G |-> 1, h |-> -2], F |-> <<0>>],
      [data |-> [Q |-> -1, p |-> 1, G |-> 1, h |-> 3], F |-> <<0>>],
      [data |-> [Q |-> 0, p |-> 1, G |-> 1, h |-> 0], F |-> <<0>>] }

EpsVals == {<<1, 100>>, <<3, 1>>}
VerboseVals == {-1, 0}

\* what the KKT solves of one iteration return for a batch element: the
\* combined direction <<dx, ds, dz>> of lines 323-325
Dirs == { <<One, <<-1, 2>>, One>>, <<Neg(One), Neg(One), Neg(One)>>,
          <<One, Zero, Neg(One)>>, <<One, <<-1, 2>>, <<-2, 1>> >> }

\* the directions of the two elements of a batch of two
PairDirs ==
    { << <<One, One, One>>, <<Neg(One), Neg(One), Neg(One)>> >>,
      << <<Neg(One), Neg(One), Neg(One)>>, <<Neg(One), Neg(One), Neg(One)>> >>,
      << <<One, Zero, Neg(One)>>, <<One, One, One>> >>,
      << <<One, One, PInf>>, <<Neg(One), Neg(One), Neg(One)>> >>,
      << <<One, One, PInf>>, <<One, One, PInf>> >> }

\* initial points <<x, s, z>> returned by the strategies that solve the
\* regularised full system
InitPoints == { <<0, 1, -1>>, <<1, 2, 3>> }

\* the platform: whether the tensors live on the GPU and whether
\* Tensor.btrifact accepts the pivot keyword
Envs == { [is_cuda |-> FALSE, pivot_kw |-> FALSE] }

\* batches of two elements
PairData ==
    { << [Q |-> 1, p |-> 1, G |-> -1, h |-> 0], [Q |-> 2, p |-> 1, G |-> 1, h |-> -2] >>,
      << [Q |-> 2, p |-> 1, G |-> 1, h |-> -2], [Q |-> 2, p |-> 0, G |-> 1, h |-> -1] >> }

\* the problems a strategy is called on: the strategies that do not use the
\* pre-factorisation are called on those with Q = 1 and Q = -1
ProblemsOf(sv) ==
    IF sv = "LU_PARTIAL" THEN Problems
    ELSE {pr \in Problems : pr.data.Q \in {1, -1} /\ pr.F \in {<<0>>, <<>>}}

Inputs ==
    UNION { { [nBatch |-> 1, solver |-> sv, maxIter |-> m, notImprovedLim |-> l,
               eps |-> e, verbose |-> vb, env |-> en, data |-> <<pr.data>>,
               F |-> pr.F] :
                 pr \in ProblemsOf(sv), m \in 0..MaxIterBound,
                 l \in 0..MaxLimBound, e \in EpsVals, vb \in VerboseVals,
                 en \in Envs } : sv \in Strategies }
    \cup
    [ nBatch : {2}, solver : Strategies,
      maxIter : 0..MaxIterBound, notImprovedLim : 0..MaxLimBound,
      eps : EpsVals, verbose : {0}, env : Envs,
      data : PairData,
      F : {<<0, 0>>} ]

\* an absent tensor argument (F = None) and a raising backend solve
NoTensor == <<>>
Raise == <<>>

Qm(a, b) == Num(a.data[b].Q)
pv(a, b) == Num(a.data[b].p)
Gm(a, b) == Num(a.data[b].G)
hv(a, b) == Num(a.data[b].h)
Fm(a, b) == Num(a.F[b])

-----------------------------------------------------------------------------
(* The frame: everything a call reads or writes *)

NoBest == [has |-> FALSE, resids |-> <<>>, x |-> <<>>, z |-> <<>>, s |-> <<>>]
NoRet == [none |-> TRUE, x |-> <<>>, y |-> None, z |-> <<>>, s |-> <<>>]
NoSLU == [data |-> <<>>, pivots |-> <<>>]

Frame0 ==
    [pc |-> "start", Q_LU |-> <<>>, S_LU |-> NoSLU, R |-> <<>>,
     eye |-> <<>>, flag |-> FALSE,
     x |-> <<>>, s |-> <<>>, z |-> <<>>, best |-> NoBest,
     nNotImproved |-> 0, i |-> 0, ret |-> NoRet, exc |-> "",
     warned |-> FALSE, via |-> "", hist |-> <<>>]

\* batched LU factorisation fails ("failed to factorize some batch elements")
\* when some element's matrix has an exactly zero pivot
Singular(M) == \E b \in DOMAIN M : M[b] = Zero

\* btrifact_hack: the TypeError branch shows the warning once
btrifact_hack_flag(a, flag) == flag \/ ~a.env.pivot_kw

-----------------------------------------------------------------------------
(* pre_factor_kkt(Q, G, F, A) *)

pre_factor_kkt(a, f) ==
    LET B == 1..a.nBatch
        Q == [b \in B |-> Qm(a, b)]
        flag1 == btrifact_hack_flag(a, f.flag)
    IN IF Singular(Q)
       THEN [f EXCEPT !.pc = "raised", !.exc = "RuntimeError", !.flag = flag1,
                      !.via = "pre_factor_kkt"]
       ELSE IF a.F = NoTensor
       THEN \* G_invQ_GT = bmm(...) + F with F = None
            [f EXCEPT !.pc = "raised", !.exc = "TypeError", !.flag = flag1,
                      !.via = "pre_factor_kkt"]
       ELSE LET G_invQ_GT == [b \in B |->
                    Add(Mul(Gm(a, b), Div(Gm(a, b), Q[b])), Fm(a, b))]
            IN [f EXCEPT !.pc = "factored", !.flag = flag1,
                         !.Q_LU = Q,
                         !.R = G_invQ_GT,
                         !.S_LU = [data |-> [b \in B |-> Zero],
                                   pivots |-> [b \in B |-> <<1>>]]]

-----------------------------------------------------------------------------
(* factor_kkt(S_LU, R, d) *)

\* the mask used for a d of shape <<nBatch, nineq>> when only the batch size
\* of the cached mask is compared
factor_kkt_eye_BatchOnly(eye, dsize) ==
    IF eye = <<>> \/ eye[1] # dsize[1]
    THEN <<dsize[1], dsize[2], dsize[2]>> ELSE eye

\* lines 849-853: the mask (its shape) used by a call with d.size() = dsize.
\* factor_kkt_eye.size() has three entries and d.size() two
factor_kkt_eye_for(eye, dsize) ==
    IF eye = <<>> \/ eye # dsize
    THEN <<dsize[1], dsize[2], dsize[2]>> ELSE eye

\* factor_kkt without the clone of R: the diagonal update is made on R itself
factor_kkt_NoClone(a, f, d) ==
    LET B == 1..a.nBatch
        eye1 == factor_kkt_eye_for(f.eye, <<a.nBatch, nineq>>)
        T == [b \in B |-> Add(f.R[b], Div(One, d[b]))]
        flag1 == btrifact_hack_flag(a, f.flag)
    IN IF Singular(T)
       THEN [ok |-> FALSE, eye |-> eye1, flag |-> flag1, R |-> T, S_LU |-> f.S_LU]
       ELSE [ok |-> TRUE, eye |-> eye1, flag |-> flag1, R |-> T,
             S_LU |-> [data |-> T,
                       pivots |-> IF flag1 \/ ~a.env.is_cuda
                                  THEN [b \in B |-> <<1 + neq>>]
                                  ELSE f.S_LU.pivots]]

\* the new contents of the globals, of R and of S_LU, and whether
\* btrifact_hack(T) raised
factor_kkt(a, f, d) ==
    LET B == 1..a.nBatch
        eye1 == factor_kkt_eye_for(f.eye, <<a.nBatch, nineq>>)
        \* T = R.clone(); T[factor_kkt_eye] += (1. / d).squeeze()
        T == [b \in B |-> Add(f.R[b], Div(One, d[b]))]
        flag1 == btrifact_hack_flag(a, f.flag)
    IN IF Singular(T)
       THEN [ok |-> FALSE, eye |-> eye1, flag |-> flag1, R |-> f.R, S_LU |-> f.S_LU]
       ELSE [ok |-> TRUE, eye |-> eye1, flag |-> flag1, R |-> f.R,
             S_LU |-> [data |-> T,
                       pivots |-> IF flag1 \/ ~a.env.is_cuda
                                  THEN [b \in B |-> <<1 + neq>>]
                                  ELSE f.S_LU.pivots]]

-----------------------------------------------------------------------------
(* solve_kkt(Q_LU, d, G, A, S_LU, rx, rs, rz, ry) for one batch element *)

solve_kkt(a, f, b, d, rx, rs, rz) ==
    LET invQ_rx == Div(rx, f.Q_LU[b])
        h == Sub(Add(Mul(invQ_rx, Gm(a, b)), Div(rs, d)), rz)
        w == Neg(Div(h, f.S_LU.data[b]))
        g1 == Sub(Neg(rx), Mul(w, Gm(a, b)))
        g2 == Sub(Neg(rs), w)
    IN [dx |-> Div(g1, f.Q_LU[b]), ds |-> Div(g2, d), dz |-> w]

-----------------------------------------------------------------------------
(* forward: initial values, lines 65-176 *)

\* M = torch.min(v, 1)[0].repeat(1, nineq); I = M <= 0; v[I] -= M[I] - 1
Shift(v) ==
    [b \in DOMAIN v |->
        LET M == MinAll({v[b]})
        IN IF Le(M, Zero) THEN Sub(v[b], Sub(M, One)) ELSE v[b]]

\* o is what the strategy's initial solve produced when it is not computed
\* here: Raise, or the point <<x, s, z>> of every batch element
forward_init(a, f, o) ==
    LET B == 1..a.nBatch
        fresh == [f EXCEPT !.best = NoBest, !.nNotImproved = 0, !.i = 0,
                           !.ret = NoRet, !.exc = "", !.warned = FALSE,
                           !.via = "", !.hist = <<>>,
                           !.x = <<>>, !.s = <<>>, !.z = <<>>]
    IN IF a.solver = "LU_PARTIAL"
       THEN LET d == [b \in B |-> One]
                fk == factor_kkt(a, f, d)
                g == [fresh EXCEPT !.eye = fk.eye, !.flag = fk.flag,
                                   !.R = fk.R, !.S_LU = fk.S_LU]
            IN IF ~fk.ok
               THEN [g EXCEPT !.pc = "raised", !.exc = "RuntimeError",
                              !.via = "forward"]
               ELSE LET sol == [b \in B |->
                                  solve_kkt(a, g, b, d[b], pv(a, b), Zero, Neg(hv(a, b)))]
                    IN [g EXCEPT !.pc = "loop",
                                 !.x = [b \in B |-> sol[b].dx],
                                 !.s = Shift([b \in B |-> sol[b].ds]),
                                 !.z = Shift([b \in B |-> sol[b].dz])]
       ELSE IF o = Raise
       THEN [fresh EXCEPT !.pc = "raised", !.exc = "RuntimeError",
                          !.via = "forward",
                          !.flag = btrifact_hack_flag(a, f.flag)]
       ELSE [fresh EXCEPT !.pc = "loop",
                          !.flag = btrifact_hack_flag(a, f.flag),
                          !.x = [b \in B |-> Num(o[b][1])],
                          !.s = Shift([b \in B |-> Num(o[b][2])]),
                          !.z = Shift([b \in B |-> Num(o[b][3])])]

-----------------------------------------------------------------------------
(* forward: one loop iteration up to the termination check, lines 179-233 *)

StepDamp == <<999, 1000>>
InaccThreshold == One

\* mu.min() > 1e100: every finite value of the model is below 1e100
Above1e100(m) == m = PInf

RetOf(bst) == [none |-> ~bst.has, x |-> bst.x, y |-> None, z |-> bst.z, s |-> bst.s]

Resids(a, f) ==
    [b \in 1..a.nBatch |->
        LET rx == Add(Add(Mul(f.z[b], Gm(a, b)), Mul(f.x[b], Qm(a, b))), pv(a, b))
            rz0 == Sub(Add(Mul(f.x[b], Gm(a, b)), f.s[b]), hv(a, b))
            rz == IF a.F # NoTensor THEN Sub(rz0, Mul(f.z[b], Fm(a, b))) ELSE rz0
            mu == Abs(Div(Mul(f.s[b], f.z[b]), Num(nineq)))
            pri_resid == Abs(rz)
            dual_resid == Abs(rx)
        IN [mu |-> mu,
            resids |-> Add(Add(pri_resid, dual_resid), Mul(Num(nineq), mu))]]

\* TrackBest with the masked copies of x, z, s left out: only the stored
\* residual follows an improvement
TrackBestResidsOnly(a, f, resids) ==
    LET B == 1..a.nBatch
    IN IF ~f.best.has
       THEN [best |-> [has |-> TRUE, resids |-> resids, x |-> f.x, z |-> f.z, s |-> f.s],
             nNotImproved |-> 0]
       ELSE LET I == [b \in B |-> Lt(resids[b], f.best.resids[b])]
            IN [best |-> [f.best EXCEPT
                            !.resids = [b \in B |-> IF I[b] THEN resids[b]
                                                    ELSE f.best.resids[b]]],
                 nNotImproved |-> IF \E b \in B : I[b] THEN 0 ELSE f.nNotImproved + 1]

\* TrackBest with the stall counter reset only when every batch element
\* improves
TrackBestAllImprove(a, f, resids) ==
    LET B == 1..a.nBatch
    IN IF ~f.best.has
       THEN [best |-> [has |-> TRUE, resids |-> resids, x |-> f.x, z |-> f.z, s |-> f.s],
             nNotImproved |-> 0]
       ELSE LET I == [b \in B |-> Lt(resids[b], f.best.resids[b])]
            IN [best |-> [has |-> TRUE,
                          resids |-> [b \in B |-> IF I[b] THEN resids[b] ELSE f.best.resids[b]],
                          x |-> [b \in B |-> IF I[b] THEN f.x[b] ELSE f.best.x[b]],
                          z |-> [b \in B |-> IF I[b] THEN f.z[b] ELSE f.best.z[b]],
                          s |-> [b \in B |-> IF I[b] THEN f.s[b] ELSE f.best.s[b]]],
                 nNotImproved |-> IF \A b \in B : I[b] THEN 0 ELSE f.nNotImproved + 1]

\* lines 207-228: the best record and the stall counter after this iterate
TrackBest(a, f, resids) ==
    LET B == 1..a.nBatch
    IN IF ~f.best.has
       THEN [best |-> [has |-> TRUE, resids |-> resids, x |-> f.x, z |-> f.z, s |-> f.s],
             nNotImproved |-> 0]
       ELSE LET I == [b \in B |-> Lt(resids[b], f.best.resids[b])]
            IN [best |-> [has |-> TRUE,
                          resids |-> [b \in B |-> IF I[b] THEN resids[b] ELSE f.best.resids[b]],
                          x |-> [b \in B |-> IF I[b] THEN f.x[b] ELSE f.best.x[b]],
                          z |-> [b \in B |-> IF I[b] THEN f.z[b] ELSE f.best.z[b]],
                          s |-> [b \in B |-> IF I[b] THEN f.s[b] ELSE f.best.s[b]]],
                 nNotImproved |-> IF \E b \in B : I[b] THEN 0 ELSE f.nNotImproved + 1]

\* line 229
Terminates(a, bst, n, mu) ==
    \/ n = a.notImprovedLim
    \/ Lt(MaxAll(Range(bst.resids)), a.eps)
    \/ Above1e100(MinAll(Range(mu)))

\* lines 230-232 and 339-341
Warns(a, bst) == Gt(MaxAll(Range(bst.resids)), InaccThreshold) /\ a.verbose >= 0

iter_head(a, f) ==
    LET B == 1..a.nBatch
        r == Resids(a, f)
        resids == [b \in B |-> r[b].resids]
        mu == [b \in B |-> r[b].mu]
        d == [b \in B |-> Div(f.z[b], f.s[b])]
        fk == IF a.solver = "LU_PARTIAL" THEN factor_kkt(a, f, d)
              ELSE [ok |-> TRUE, eye |-> f.eye, flag |-> f.flag, R |-> f.R, S_LU |-> f.S_LU]
        g == [f EXCEPT !.eye = fk.eye, !.flag = fk.flag, !.R = fk.R, !.S_LU = fk.S_LU]
    IN IF ~fk.ok
       THEN \* except: return best['x'], best['y'], best['z'], best['s']
            [g EXCEPT !.pc = "returned", !.ret = RetOf(f.best), !.via = "factor_kkt"]
       ELSE LET tb == TrackBest(a, f, resids)
                h == [g EXCEPT !.best = tb.best, !.nNotImproved = tb.nNotImproved,
                               !.hist = Append(@, [resids |-> resids, x |-> f.x,
                                                   z |-> f.z, s |-> f.s, mu |-> mu,
                                                   best |-> tb.best,
                                                   nNotImproved |-> tb.nNotImproved])]
            IN IF Terminates(a, tb.best, tb.nNotImproved, mu)
               THEN [h EXCEPT !.pc = "returned", !.ret = RetOf(tb.best),
                              !.via = "terminate",
                              !.warned = Warns(a, tb.best)]
               ELSE h

-----------------------------------------------------------------------------
(* forward: directions and update, lines 235-337 *)

\* o is what the two KKT solves produced: Raise, or for every batch element
\* the combined direction <<dx, ds, dz>>
iter_tail(a, f, o) ==
    LET B == 1..a.nBatch
    IN IF o = Raise
       THEN [f EXCEPT !.pc = "raised", !.exc = "RuntimeError", !.via = "forward",
                      !.flag = btrifact_hack_flag(a, f.flag)]
       ELSE LET dx == [b \in B |-> o[b][1]]
                ds == [b \in B |-> o[b][2]]
                dz == [b \in B |-> o[b][3]]
                stz == get_step([b \in B |-> <<f.z[b]>>], [b \in B |-> <<dz[b]>>])
                sts == get_step([b \in B |-> <<f.s[b]>>], [b \in B |-> <<ds[b]>>])
                alpha == [b \in B |->
                            CMin(Mul(StepDamp, CMin(stz[b], sts[b])), One)]
            IN [f EXCEPT !.x = [b \in B |-> Add(f.x[b], Mul(alpha[b], dx[b]))],
                         !.s = [b \in B |-> Add(f.s[b], Mul(alpha[b], ds[b]))],
                         !.z = [b \in B |-> Add(f.z[b], Mul(alpha[b], dz[b]))],
                         !.i = f.i + 1,
                         !.flag = IF a.solver = "LU_PARTIAL" THEN f.flag
                                  ELSE btrifact_hack_flag(a, f.flag)]

\* lines 339-342, after the loop
forward_exhaust(a, f) ==
    IF ~f.best.has
    THEN \* best['resids'] is None: None has no max()
         [f EXCEPT !.pc = "raised", !.exc = "AttributeError", !.via = "forward"]
    ELSE [f EXCEPT !.pc = "returned", !.ret = RetOf(f.best), !.via = "exhausted",
                   !.warned = Warns(a, f.best)]

-----------------------------------------------------------------------------
(* The caller: pre_factor_kkt once, then forward, possibly again *)

Frame ==
    [pc |-> pc, Q_LU |-> Q_LU, S_LU |-> S_LU, R |-> R,
     eye |-> factor_kkt_eye, flag |-> shown_btrifact_warning,
     x |-> x, s |-> s, z |-> z, best |-> best,
     nNotImproved |-> nNotImproved, i |-> i, ret |-> ret, exc |-> exc,
     warned |-> warned, via |-> via, hist |-> hist]

Commit(f) ==
    /\ pc' = f.pc
    /\ Q_LU' = f.Q_LU
    /\ S_LU' = f.S_LU
    /\ R' = f.R
    /\ factor_kkt_eye' = f.eye
    /\ shown_btrifact_warning' = f.flag
    /\ x' = f.x
    /\ s' = f.s
    /\ z' = f.z
    /\ best' = f.best
    /\ nNotImproved' = f.nNotImproved
    /\ i' = f.i
    /\ ret' = f.ret
    /\ exc' = f.exc
    /\ warned' = f.warned
    /\ via' = f.via
    /\ hist' = f.hist

NoDirs == [init |-> <<>>, it |-> <<>>]
NoStep == [v |-> <<>>, dv |-> <<>>, step |-> <<>>]

\* the outcomes of a backend solve of the strategies that factor per solve
InitOutcomes(a) == {Raise} \cup [1..a.nBatch -> InitPoints]
IterOutcomes(a) ==
    (IF a.solver = "LU_PARTIAL" THEN {} ELSE {Raise})
        \cup (IF a.nBatch = 1 THEN [1..1 -> Dirs] ELSE PairDirs)

\* the arithmetic of the model is exact: an iterate is iterated on only
\* while its finite entries have denominators up to DenCap
Representable(f) ==
    \A b \in DOMAIN f.x : \A v \in {f.x[b], f.s[b], f.z[b]} : v[2] <= DenCap

Init ==
    /\ inp \in Inputs
    /\ pc = "start"
    /\ Q_LU = <<>> /\ S_LU = NoSLU /\ R = <<>>
    /\ factor_kkt_eye = <<>>
    /\ shown_btrifact_warning = FALSE
    /\ x = <<>> /\ s = <<>> /\ z = <<>>
    /\ best = NoBest
    /\ nNotImproved = 0
    /\ i = 0
    /\ ret = NoRet
    /\ exc = ""
    /\ warned = FALSE
    /\ via = ""
    /\ hist = <<>>
    /\ dirs = NoDirs
    /\ call = 1
    /\ ret1 = NoRet
    /\ gs = NoStep

PreFactor ==
    /\ pc = "start"
    /\ call = 1
    /\ Commit(pre_factor_kkt(inp, Frame))
    /\ UNCHANGED <<inp, dirs, call, ret1, gs>>

\* forward(Q, p, G, h, A, b, F, Q_LU, S_LU, R, ...) is entered; the
\* strategies other than LU_PARTIAL do not read Q_LU, S_LU, R
CallForward ==
    /\ \/ pc = "factored"
       \/ pc = "start" /\ inp.solver # "LU_PARTIAL"
    /\ IF inp.solver = "LU_PARTIAL"
       THEN Commit(forward_init(inp, Frame, Raise)) /\ UNCHANGED dirs
       ELSE IF dirs.init # <<>>
       THEN Commit(forward_init(inp, Frame, dirs.init[1])) /\ UNCHANGED dirs
       ELSE \E o \in InitOutcomes(inp) :
               /\ Commit(forward_init(inp, Frame, o))
               /\ dirs' = [dirs EXCEPT !.init = <<o>>]
    /\ UNCHANGED <<inp, call, ret1, gs>>

Iterate ==
    /\ pc = "loop"
    /\ i < inp.maxIter
    /\ Representable(Frame)
    /\ LET f1 == iter_head(inp, Frame)
       IN IF f1.pc # "loop"
          THEN Commit(f1) /\ UNCHANGED dirs
          ELSE IF Len(dirs.it) > i
          THEN Commit(iter_tail(inp, f1, dirs.it[i + 1])) /\ UNCHANGED dirs
          ELSE \E o \in IterOutcomes(inp) :
                  /\ Commit(iter_tail(inp, f1, o))
                  /\ dirs' = [dirs EXCEPT !.it = Append(@, o)]
    /\ UNCHANGED <<inp, call, ret1, gs>>

Exhaust ==
    /\ pc = "loop"
    /\ i = inp.maxIter
    /\ Commit(forward_exhaust(inp, Frame))
    /\ UNCHANGED <<inp, dirs, call, ret1, gs>>

\* the mask a call of factor_kkt on a problem of another size leaves in the
\* module-level factor_kkt_eye
OtherEye == <<3, 2, 2>>

\* the caller solves the same problem again with the same arguments, with the
\* Q_LU, S_LU, R it passed before; the module may have served another
\* problem in between
CallAgain ==
    /\ pc = "returned"
    /\ call = 1
    /\ pc' = IF Q_LU = <<>> THEN "start" ELSE "factored"
    /\ call' = call + 1
    /\ ret1' = ret
    /\ factor_kkt_eye' \in {factor_kkt_eye, OtherEye}
    /\ UNCHANGED <<inp, Q_LU, S_LU, R, shown_btrifact_warning,
                   x, s, z, best, nNotImproved, i, ret, exc, warned, via, hist,
                   dirs, gs>>

Next == PreFactor \/ CallForward \/ Iterate \/ Exhaust \/ CallAgain

Spec == Init /\ [][Next]_vars

-----------------------------------------------------------------------------
(* get_step called on its own *)

StepShapes == {<<1, 2>>, <<2, 1>>, <<2, 2>>}
StepVVals == {1, 2, 3}
StepDvVals == {-2, -1, 0, 1}

InitStep ==
    /\ pc = "step"
    /\ inp = <<>>
    /\ Q_LU = <<>> /\ S_LU = NoSLU /\ R = <<>>
    /\ factor_kkt_eye = <<>>
    /\ shown_btrifact_warning = FALSE
    /\ x = <<>> /\ s = <<>> /\ z = <<>>
    /\ best = NoBest
    /\ nNotImproved = 0
    /\ i = 0
    /\ ret = NoRet
    /\ exc = ""
    /\ warned = FALSE
    /\ via = ""
    /\ hist = <<>>
    /\ dirs = NoDirs
    /\ call = 1
    /\ ret1 = NoRet
    /\ gs = NoStep

CallGetStep ==
    /\ pc = "step"
    /\ \E sh \in StepShapes :
         \E v \in [1..sh[1] -> [1..sh[2] -> StepVVals]] :
           \E dv \in [1..sh[1] -> [1..sh[2] -> StepDvVals]] :
             LET vt == [b \in 1..sh[1] |-> [k \in 1..sh[2] |-> Num(v[b][k])]]
                 dvt == [b \in 1..sh[1] |-> [k \in 1..sh[2] |-> Num(dv[b][k])]]
             IN gs' = [v |-> vt, dv |-> dvt, step |-> get_step(vt, dvt)]
    /\ pc' = "stepped"
    /\ UNCHANGED <<inp, Q_LU, S_LU, R, factor_kkt_eye, shown_btrifact_warning,
                   x, s, z, best, nNotImproved, i, ret, exc, warned, via, hist,
                   dirs, call, ret1>>

NextStep == CallGetStep

SpecStep == InitStep /\ [][NextStep]_vars

-----------------------------------------------------------------------------
(* factor_kkt called by solves of different shapes: the module-level mask *)

MaxEyeCalls == 3        \* factor_kkt is called at most MaxEyeCalls times
EyeShapes == {1, 2, 3} \X {1, 2}

InitEye ==
    /\ pc = "eye"
    /\ inp = <<>>
    /\ Q_LU = <<>> /\ S_LU = NoSLU /\ R = <<>>
    /\ factor_kkt_eye = <<>>
    /\ shown_btrifact_warning = FALSE
    /\ x = <<>> /\ s = <<>> /\ z = <<>>
    /\ best = NoBest
    /\ nNotImproved = 0
    /\ i = 0
    /\ ret = NoRet
    /\ exc = ""
    /\ warned = FALSE
    /\ via = ""
    /\ hist = <<>>
    /\ dirs = NoDirs
    /\ call = 1
    /\ ret1 = NoRet
    /\ gs = NoStep

\* a call factor_kkt(S_LU, R, d) with d of shape dsize: hist keeps, per call,
\* the shape of d, the cached mask it found and the mask it applied to T
CallFactorKktEye ==
    /\ pc = "eye"
    /\ Len(hist) < MaxEyeCalls
    /\ \E dsize \in EyeShapes :
         LET used == factor_kkt_eye_for(factor_kkt_eye, dsize)
         IN /\ factor_kkt_eye' = used
            /\ hist' = Append(hist, [d |-> dsize, cached |-> factor_kkt_eye,
                                     used |-> used])
    /\ UNCHANGED <<pc, inp, Q_LU, S_LU, R, shown_btrifact_warning,
                   x, s, z, best, nNotImproved, i, ret, exc, warned, via,
                   dirs, call, ret1, gs>>

NextEye == CallFactorKktEye

SpecEye == InitEye /\ [][NextEye]_vars

-----------------------------------------------------------------------------
(* pre_factor_kkt and factor_kkt on one problem with an equality            *)
(* constraint: nz = 1, neq = 1, nineq = 2, one batch element, on the CPU.   *)
(* S_LU[0] is kept by blocks: b11 (1 x 1), b12 (1 x 2), b21 (2 x 1),        *)
(* b22 (2 x 2); S_LU[1] is the packed pivots (3 entries, 1-based).          *)

MaxBlockCalls == 2      \* factor_kkt is called at most MaxBlockCalls times

BlockInputs ==
    [ Q : {1, 2}, A : {1, 2}, G : {<<1, 2>>, <<1, 1>>},
      F : { << <<0, 0>>, <<0, 0>> >>, << <<0, -1>>, <<1, 0>> >>,
            << <<0, 1>>, <<1, 0>> >> } ]

\* d = z / s of positive z and s
BlockDVals == { <<1, 2>>, <<2, 1>> }

RowsOf2 == 1..2

\* btrifact of a 2 x 2 matrix with partial pivoting: the packed factors, the
\* packed pivots, and whether some pivot is exactly zero
btrifact2(T) ==
    LET swap == Gt(Abs(T[2][1]), Abs(T[1][1]))
        r1 == IF swap THEN T[2] ELSE T[1]
        r2 == IF swap THEN T[1] ELSE T[2]
        l == Div(r2[1], r1[1])
        u22 == Sub(r2[2], Mul(l, r1[2]))
    IN [ok |-> r1[1] # Zero /\ u22 # Zero,
        data |-> << r1, <<l, u22>> >>,
        pivots |-> << IF swap THEN 2 ELSE 1, 2 >>]

\* btriunpack(..., unpack_data=False) applied to a 2 x 1 block: the
\* permutation of packed pivots pk is the exchange of the two rows iff pk[1] = 2
PermuteRows(pk, blk) == IF pk[1] = 2 THEN <<blk[2], blk[1]>> ELSE blk

\* lines 786-837 with neq = 1
pre_factor_kkt_blocks(a) ==
    LET q == Num(a.Q)
        av == Num(a.A)
        g == [r \in RowsOf2 |-> Num(a.G[r])]
        G_invQ_GT == [r \in RowsOf2 |-> [c \in RowsOf2 |->
                         Add(Mul(g[r], Div(g[c], q)), Num(a.F[r][c]))]]
        invQ_AT == Div(av, q)
        A_invQ_AT == Mul(av, invQ_AT)
        G_invQ_AT == [r \in RowsOf2 |-> Mul(g[r], invQ_AT)]
        U_inv == Div(One, A_invQ_AT)
        T == [c \in RowsOf2 |-> Div(G_invQ_AT[c], A_invQ_AT)]
    IN [Q_LU |-> q,
        S_LU |-> [b11 |-> A_invQ_AT,
                  b12 |-> [c \in RowsOf2 |-> Mul(A_invQ_AT, T[c])],
                  b21 |-> [r \in RowsOf2 |-> Mul(G_invQ_AT[r], U_inv)],
                  b22 |-> << <<Zero, Zero>>, <<Zero, Zero>> >>,
                  pivots |-> <<1, 2, 3>>],
        R |-> [r \in RowsOf2 |-> [c \in RowsOf2 |->
                  Sub(G_invQ_GT[r][c], Mul(G_invQ_AT[r], T[c]))]]]

\* lines 843-879 with neq = 1, nineq = 2, not T.is_cuda
factor_kkt_blocks(S, Rm, d) ==
    LET T == [r \in RowsOf2 |-> [c \in RowsOf2 |->
                 IF r = c THEN Add(Rm[r][c], Div(One, d[r])) ELSE Rm[r][c]]]
        T_LU == btrifact2(T)
        oldPivotsPacked == <<S.pivots[2] - 1, S.pivots[3] - 1>>
        newPivotsPacked == T_LU.pivots
    IN IF ~T_LU.ok
       THEN [ok |-> FALSE, S_LU |-> S, R |-> Rm]
       ELSE [ok |-> TRUE, R |-> Rm,
             S_LU |-> [S EXCEPT
                 \* newPivots.transpose(1, 2).bmm(oldPivots.bmm(S_LU_21))
                 !.b21 = PermuteRows(newPivotsPacked, PermuteRows(oldPivotsPacked, @)),
                 !.pivots = <<@[1], newPivotsPacked[1] + 1, newPivotsPacked[2] + 1>>,
                 !.b22 = T_LU.data]]

InitBlocks ==
    /\ inp \in BlockInputs
    /\ pc = "start"
    /\ Q_LU = <<>> /\ S_LU = NoSLU /\ R = <<>>
    /\ factor_kkt_eye = <<>>
    /\ shown_btrifact_warning = FALSE
    /\ x = <<>> /\ s = <<>> /\ z = <<>>
    /\ best = NoBest
    /\ nNotImproved = 0
    /\ i = 0
    /\ ret = NoRet
    /\ exc = ""
    /\ warned = FALSE
    /\ via = ""
    /\ hist = <<>>
    /\ dirs = NoDirs
    /\ call = 1
    /\ ret1 = NoRet
    /\ gs = NoStep

PreFactorBlocks ==
    /\ pc = "start"
    /\ LET f == pre_factor_kkt_blocks(inp)
       IN Q_LU' = f.Q_LU /\ S_LU' = f.S_LU /\ R' = f.R
    /\ pc' = "factored"
    /\ shown_btrifact_warning' = TRUE
    /\ UNCHANGED <<inp, factor_kkt_eye, x, s, z, best, nNotImproved, i, ret,
                   exc, warned, via, hist, dirs, call, ret1, gs>>

\* one call factor_kkt(S_LU, R, d); hist keeps what the call found and left
CallFactorKktBlocks ==
    /\ pc = "factored"
    /\ Len(hist) < MaxBlockCalls
    /\ \E d \in BlockDVals \X BlockDVals :
         LET fk == factor_kkt_blocks(S_LU, R, d)
         IN /\ S_LU' = fk.S_LU
            /\ R' = fk.R
            /\ pc' = IF fk.ok THEN "factored" ELSE "raised"
            /\ exc' = IF fk.ok THEN exc ELSE "RuntimeError"
            /\ hist' = Append(hist, [ok |-> fk.ok, d |-> d, S_LU |-> S_LU, R |-> R,
                                     Q_LU |-> Q_LU, S_LU1 |-> fk.S_LU, R1 |-> fk.R,
                                     Q_LU1 |-> Q_LU])
    /\ factor_kkt_eye' = factor_kkt_eye_for(factor_kkt_eye, <<1, 2>>)
    /\ UNCHANGED <<inp, Q_LU, shown_btrifact_warning, x, s, z, best, nNotImproved,
                   i, ret, warned, via, dirs, call, ret1, gs>>

NextBlocks == PreFactorBlocks \/ CallFactorKktBlocks

SpecBlocks == InitBlocks /\ [][NextBlocks]_vars

-----------------------------------------------------------------------------
(* forward on one element of the batch alone *)

\* the arguments of the call that passes element b as a batch of one
SoloArgs(b) ==
    [inp EXCEPT !.nBatch = 1, !.data = <<inp.data[b]>>,
                !.F = IF inp.F = NoTensor THEN NoTensor ELSE <<inp.F[b]>>]

\* the loop of forward on element b alone. The KKT solves return for an
\* iterate what they returned for it in the batch; the run is "unknown" once
\* it needs a solve of an iterate the batch did not solve for
RECURSIVE SoloLoop(_, _, _)
SoloLoop(a, f, b) ==
    IF f.pc # "loop" THEN f
    ELSE IF f.i = a.maxIter THEN forward_exhaust(a, f)
    ELSE IF ~Representable(f) THEN [f EXCEPT !.pc = "unknown"]
    ELSE LET f1 == iter_head(a, f)
             k == f.i + 1
         IN IF f1.pc # "loop" THEN f1
            ELSE IF \/ Len(dirs.it) < k
                    \/ Len(hist) < k
                    \/ <<hist[k].x[b], hist[k].s[b], hist[k].z[b]>>
                         # <<f.x[1], f.s[1], f.z[1]>>
            THEN [f EXCEPT !.pc = "unknown"]
            ELSE SoloLoop(a, iter_tail(a, f1, IF dirs.it[k] = Raise THEN Raise
                                               ELSE <<dirs.it[k][b]>>), b)

SoloRun(b) ==
    LET a == SoloArgs(b)
        f0 == IF Q_LU = <<>> THEN Frame0 ELSE pre_factor_kkt(a, Frame0)
        o == IF dirs.init = <<>> THEN Raise
             ELSE IF dirs.init[1] = Raise THEN Raise ELSE <<dirs.init[1][b]>>
    IN IF f0.pc = "raised" THEN f0 ELSE SoloLoop(a, forward_init(a, f0, o), b)

-----------------------------------------------------------------------------
(* Properties *)

\* C1: under LU_PARTIAL, when factor_kkt fails inside a loop iteration,
\* forward returns the best iterate recorded so far, and what it returns is
\* never None and never NaN
C1_FactorFailureReturnsBest ==
    (pc = "returned" /\ via = "factor_kkt" /\ inp.solver = "LU_PARTIAL") =>
        /\ ~ret.none
        /\ ret = RetOf(best)
        /\ \A b \in DOMAIN ret.x :
              ~IsNaN(ret.x[b]) /\ ~IsNaN(ret.s[b]) /\ ~IsNaN(ret.z[b])

\* C2: at the start of every loop iteration every entry of s and of z is
\* strictly positive
C2_SlacksPositive ==
    (pc = "loop" /\ i < inp.maxIter) =>
        \A b \in DOMAIN s : Gt(s[b], Zero) /\ Gt(z[b], Zero)

\* C3: every step length get_step returns lies in [0, 1], and it is 1 for a
\* batch element whose dv has no negative component (zeros included)
C3_StepInUnitInterval ==
    gs.step # <<>> =>
        \A b \in DOMAIN gs.step :
            /\ Le(Zero, gs.step[b])
            /\ Le(gs.step[b], One)
            /\ (\A k \in DOMAIN gs.dv[b] : ~Lt(gs.dv[b][k], Zero)) => gs.step[b] = One

\* C4: forward never lets the exception of a failed factorisation or solve
\* reach its caller
C4_ForwardNeverRaises ==
    ~(pc = "raised" /\ via = "forward" /\ exc = "RuntimeError")

\* C5: for every maxIter >= 0, 0 included, a loop that runs out of iterations
\* returns without raising, and returns per element the evaluated iterate of
\* lowest combined residual
C5_ExhaustReturnsBest ==
    /\ ~(pc = "raised" /\ exc = "AttributeError")
    /\ (pc = "returned" /\ via = "exhausted") =>
          /\ ~ret.none
          /\ \A b \in DOMAIN ret.x :
                \E k \in DOMAIN hist :
                    /\ <<hist[k].x[b], hist[k].s[b], hist[k].z[b]>>
                         = <<ret.x[b], ret.s[b], ret.z[b]>>
                    /\ \A j \in DOMAIN hist :
                          ~Lt(hist[j].resids[b], hist[k].resids[b])

\* C6: the result forward returns for a batch element is the result it
\* returns when that element is solved alone
C6_BatchIndependent ==
    (pc = "returned" /\ call = 1) =>
        \A b \in 1..inp.nBatch :
            LET r == SoloRun(b)
            IN r.pc \in {"returned", "raised"} =>
                  /\ r.pc = "returned"
                  /\ r.ret.none = ret.none
                  /\ ~ret.none =>
                        <<r.ret.x[1], r.ret.s[1], r.ret.z[1]>>
                          = <<ret.x[b], ret.s[b], ret.z[b]>>

\* C7: pre_factor_kkt raises RuntimeError whenever some Q of the batch is
\* singular or is not positive semidefinite
C7_PreFactorRejectsBadQ ==
    (\E b \in 1..inp.nBatch : ~Gt(Qm(inp, b), Zero)) =>
        /\ Q_LU = <<>>
        /\ (pc = "raised" /\ via = "pre_factor_kkt") => exc = "RuntimeError"

\* C8: with F = None pre_factor_kkt and forward work as they do without the
\* coupling term: neither raises for the absent F
C8_AbsentFAccepted ==
    inp.F = NoTensor => ~(pc = "raised" /\ exc = "TypeError")

C10_WarningOnEveryReturn ==
    pc = "returned" =>
        (warned <=> /\ best.has
                    /\ Gt(MaxAll(Range(best.resids)), InaccThreshold)
                    /\ inp.verbose >= 0)

\* C11: each time the stored best of a batch element is overwritten, the mu
\* of the new best is not larger than the mu of the best it replaces
C11_BestMuNonIncreasing ==
    \A k \in DOMAIN hist : \A b \in DOMAIN hist[k].resids :
        (k > 1 /\ Lt(hist[k].resids[b], hist[k - 1].best.resids[b])) =>
            Le(Abs(Div(Mul(hist[k].best.s[b], hist[k].best.z[b]), Num(nineq))),
               Abs(Div(Mul(hist[k - 1].best.s[b], hist[k - 1].best.z[b]), Num(nineq))))

\* C12: in every iteration the best record and the termination check come
\* before factor_kkt: when forward returns from the termination check, S_LU
\* is still the factorisation of the previous iteration (of the initial
\* d = 1 in the first one), and an iterate whose factorisation fails has
\* been compared with the best record
C12_TrackBeforeFactor ==
    /\ (pc = "returned" /\ via = "terminate" /\ inp.solver = "LU_PARTIAL") =>
          \A b \in 1..inp.nBatch :
              LET n == Len(hist)
                  dPrev == IF n = 1 THEN One
                           ELSE Div(hist[n - 1].z[b], hist[n - 1].s[b])
              IN S_LU.data[b] = Add(R[b], Div(One, dPrev))
    /\ (pc = "returned" /\ via = "factor_kkt") =>
          (best.has /\ Len(hist) = i + 1)

C15_EyeHasShapeOfD ==
    \A k \in DOMAIN hist :
        hist[k].used = <<hist[k].d[1], hist[k].d[2], hist[k].d[2]>>

\* a call found the mask of a call of another batch size and another nineq,
\* and a later call found a mask of its own shape
C15_Witness ==
    /\ Len(hist) = 3
    /\ hist[2].d[1] # hist[1].d[1]
    /\ hist[2].d[2] # hist[1].d[2]
    /\ hist[2].cached = <<hist[1].d[1], hist[1].d[2], hist[1].d[2]>>
    /\ hist[3].d = hist[2].d

\* C16: a call of factor_kkt leaves R, Q_LU, the upper-left, upper-right and
\* lower-left blocks of S_LU and the first neq pivots as it found them
C16_FactorFrame ==
    \A k \in DOMAIN hist :
        /\ hist[k].R1 = hist[k].R
        /\ hist[k].Q_LU1 = hist[k].Q_LU
        /\ hist[k].S_LU1.b11 = hist[k].S_LU.b11
        /\ hist[k].S_LU1.b12 = hist[k].S_LU.b12
        /\ hist[k].S_LU1.b21 = hist[k].S_LU.b21
        /\ hist[k].S_LU1.pivots[1] = hist[k].S_LU.pivots[1]

\* C17: the step get_step returns for a batch element is the one it returns
\* when called on that element's v and dv alone
C17_StepOfElementAlone ==
    gs.step # <<>> =>
        \A b \in DOMAIN gs.step :
            gs.step[b] = get_step(<<gs.v[b]>>, <<gs.dv[b]>>)[1]

=============================================================================
